---- MODULE Spec2Model ----
(* A state-machine model of src/app.py: the Flask backend that forwards chat *)
(* messages to the Revinci API (with a cached Keycloak bearer token) and     *)
(* proxies weather, Wikipedia, news, speech-to-text and text-to-speech       *)
(* vendor APIs.                                                              *)
(*                                                                           *)
(* Request threads are the processes of Procs.  The chat handler is split at *)
(* the points where it touches the shared dictionaries or the network, so    *)
(* that two requests interleave as two threads of the server do.  The other  *)
(* handlers share no mutable state and are one action each.                  *)
EXTENDS Integers, Sequences, FiniteSets, TLC

VARIABLES
    revinci_token_cache,       \* app.py:78   {'token': str, 'expires_at': float}
    revinci_conversation_ids,  \* app.py:104  session_id -> revinci conversation_id
    conversation_sessions,     \* app.py:103  session_id -> message list
    clock,                     \* what time.time() returns, in seconds
    temp_files,                \* the temporary files that exist on disk
    config,                    \* app.py:44-110  the API keys read from the environment
    pc,                        \* each thread's position in its handler
    request,                   \* each thread's request (route and parameters)
    local,                     \* each thread's local variables
    response,                  \* each thread's response (status and JSON body)
    calls,                     \* each thread's outbound HTTP calls, in order
    ids_at_start,              \* revinci_conversation_ids as it was when each
                               \*   thread's request arrived
    completed                  \* session -> conversation_id the backend returned
                               \*   in the latest completed successful chat

vars == <<revinci_token_cache, revinci_conversation_ids, conversation_sessions,
          clock, temp_files, config, pc, request, local, response, calls,
          ids_at_start, completed>>

shared == <<revinci_token_cache, revinci_conversation_ids, conversation_sessions,
            temp_files, config, completed>>

(***************************************************************************)
(* Bounds of the model.                                                    *)
(***************************************************************************)
\* Seconds one step of the clock adds.
TickSeconds == 30
\* The clock stops after this many steps.
MaxTicks == 2

\* Two request threads: the least that lets two requests overlap.
Procs == {"p1", "p2"}

(***************************************************************************)
(* Program constants.                                                      *)
(***************************************************************************)
\* app.py:791  a token is reused only with more than this many seconds left
REFRESH_MARGIN == 60
\* app.py:813  token_data.get('expires_in', 300)
DEFAULT_EXPIRES_IN == 300
\* app.py:57   NEWS_CONFIG['page_size']
NEWS_PAGE_SIZE == 10

(***************************************************************************)
(* Python values.                                                          *)
(***************************************************************************)
None == "<None>"

\* bool(v) of a string or None
Truthy(v) == v # None /\ v # ""

\* a or b
Or(a, b) == IF Truthy(a) THEN a ELSE b

\* d.get(k, default)
Get(d, k, default) == IF k \in DOMAIN d THEN d[k] ELSE default

\* The dictionaries whose keys are some of DOMAIN F, key k holding a value of F[k].
Dicts(F) ==
    UNION { { f \in [K -> UNION {F[k] : k \in DOMAIN F}] : \A k \in K : f[k] \in F[k] }
            : K \in SUBSET DOMAIN F }

Min(a, b) == IF a < b THEN a ELSE b

(***************************************************************************)
(* Responses and bookkeeping shared by all handlers.                       *)
(***************************************************************************)
NoRequest == [route |-> "none"]
NoLocal == [fn |-> "none"]
NoResponse == [status |-> 0]

\* jsonify({'error': text}), status
ErrorResponse(status, text) == [status |-> status, error |-> text]

\* The thread p takes a request from the network.
Accept(p, req) ==
    /\ pc[p] = "idle"
    /\ request' = [request EXCEPT ![p] = req]
    /\ ids_at_start' = [ids_at_start EXCEPT ![p] = revinci_conversation_ids]

\* The thread p answers its request with r, having made the calls cs on the way.
Answer(p, r, cs) ==
    /\ pc' = [pc EXCEPT ![p] = "done"]
    /\ response' = [response EXCEPT ![p] = r]
    /\ calls' = [calls EXCEPT ![p] = calls[p] \o cs]

\* The response has been sent; the thread takes the next request.
Finish(p) ==
    /\ pc[p] = "done"
    /\ pc' = [pc EXCEPT ![p] = "idle"]
    /\ request' = [request EXCEPT ![p] = NoRequest]
    /\ response' = [response EXCEPT ![p] = NoResponse]
    /\ calls' = [calls EXCEPT ![p] = <<>>]
    /\ local' = [local EXCEPT ![p] = NoLocal]
    /\ ids_at_start' = [ids_at_start EXCEPT ![p] = <<>>]
    /\ UNCHANGED <<shared, clock>>

\* Time passes.
Tick ==
    /\ clock + TickSeconds <= MaxTicks * TickSeconds
    /\ clock' = clock + TickSeconds
    /\ UNCHANGED <<shared, pc, request, local, response, calls, ids_at_start>>

(***************************************************************************)
(* Keycloak and the Revinci backend, as the handlers see them.             *)
(***************************************************************************)
\* The access token Keycloak mints in answer to a request made at time now
\* with the reply body data: the string names the response it came in.
TokenName(now, data) ==
    "t" \o ToString(now) \o "+" \o
    (IF "expires_in" \in DOMAIN data THEN ToString(data.expires_in) ELSE "none")

\* What requests.post(token_url, ...) can give: an exception, or a response
\* with a status and a body.  "new" stands for the token Keycloak mints.
KeycloakReplies ==
    {[kind |-> "timeout"], [kind |-> "connection_error"]}
    \cup {[kind |-> "http", status |-> s, json_ok |-> TRUE, data |-> <<>>] : s \in {401, 503}}
    \cup {[kind |-> "http", status |-> 200, json_ok |-> FALSE, data |-> <<>>]}
    \cup {[kind |-> "http", status |-> 200, json_ok |-> TRUE, data |-> d] :
            d \in {<<>>, [expires_in |-> 120], [access_token |-> "new"]}
                  \cup {[access_token |-> "new", expires_in |-> e] : e \in {60, 120}}}

\* The replies used when two requests overlap.
KeycloakRepliesSmall ==
    {[kind |-> "timeout"]}
    \cup {[kind |-> "http", status |-> 200, json_ok |-> TRUE,
           data |-> [access_token |-> "new", expires_in |-> e]] : e \in {30, 120}}

\* What requests.post(REVINCI_CONFIG['url'], ...) can give.
RevinciReplies ==
    {[kind |-> "timeout"], [kind |-> "connection_error"]}
    \cup {[kind |-> "http", status |-> s, json_ok |-> TRUE, data |-> <<>>] : s \in {401, 500}}
    \cup {[kind |-> "http", status |-> 200, json_ok |-> FALSE, data |-> <<>>]}
    \cup {[kind |-> "http", status |-> 200, json_ok |-> TRUE, data |-> d] :
            d \in Dicts([content |-> {"answer"}, conversation_id |-> {"c1", "c2"}])}

RevinciRepliesSmall ==
    {[kind |-> "http", status |-> 500, json_ok |-> TRUE, data |-> <<>>]}
    \cup {[kind |-> "http", status |-> 200, json_ok |-> TRUE, data |-> d] :
            d \in {[content |-> "answer", conversation_id |-> "c1"]}}

\* The JSON bodies of chat requests: an object with some of the four keys
\* the handler reads, or a body that is no JSON object.
ChatBodies ==
    {[json |-> "null"]}
    \cup {[json |-> "object", data |-> d] :
            d \in {<<>>,
                   [message |-> ""],
                   [user_input |-> "weather in Paris"],
                   [message |-> "", user_input |-> "weather in Paris"],
                   [message |-> "hello", user_input |-> "weather in Paris"],
                   [message |-> "hello"],
                   [message |-> "hello", session_id |-> "s1"],
                   [message |-> "hello", conversation_id |-> "s2"],
                   [message |-> "hello", session_id |-> "s1", conversation_id |-> "s2"],
                   [session_id |-> "s1"]}}

ChatBodiesSmall ==
    {[json |-> "object", data |-> d] :
        d \in {<<>>, [message |-> "hello"]}}

ChatRoutes == {"/api/chat", "/api/opportunity"}

(***************************************************************************)
(* The vendor APIs behind the lookup, speech and voice routes.             *)
(***************************************************************************)
\* What a requests.get / requests.post to a vendor can give: an exception,
\* or a response with a status whose body has the expected shape or not.
VendorReplies ==
    {[kind |-> "timeout"], [kind |-> "connection_error"]}
    \cup {[kind |-> "http", status |-> st, body_ok |-> TRUE] : st \in {200, 401, 404, 500}}
    \cup {[kind |-> "http", status |-> st, body_ok |-> FALSE] : st \in {200, 500}}

\* requests.exceptions.Timeout / ConnectionError, or an exception raised while
\* the body of a 200 response is read (ValueError, KeyError).
Raises(r) == r.kind # "http" \/ (r.status = 200 /\ ~r.body_ok)

Failure(text) == [success |-> FALSE, error |-> text]

\* The configurations the server can start with: every key set, or none.
Configs ==
    {[weather_key |-> k, news_key |-> k, elevenlabs_key |-> k, azure_key |-> k] :
        k \in {"", "key"}}

\* int(text) of a query parameter given as its characters
DigitValue ==
    [c \in {"0", "1", "2", "3", "4", "5", "6", "7", "8", "9"} |->
        CASE c = "0" -> 0 [] c = "1" -> 1 [] c = "2" -> 2 [] c = "3" -> 3
          [] c = "4" -> 4 [] c = "5" -> 5 [] c = "6" -> 6 [] c = "7" -> 7
          [] c = "8" -> 8 [] c = "9" -> 9]

Unsigned(text) ==
    IF text # <<>> /\ text[1] \in {"-", "+"} THEN Tail(text) ELSE text

\* whether int(text) succeeds (no ValueError)
IsInt(text) ==
    /\ Unsigned(text) # <<>>
    /\ \A i \in 1..Len(Unsigned(text)) : Unsigned(text)[i] \in DOMAIN DigitValue

RECURSIVE DigitsValue(_)
DigitsValue(ds) ==
    IF ds = <<>> THEN 0
    ELSE 10 * DigitsValue(SubSeq(ds, 1, Len(ds) - 1)) + DigitValue[ds[Len(ds)]]

ParseInt(text) ==
    IF text[1] = "-" THEN 0 - DigitsValue(Unsigned(text)) ELSE DigitsValue(Unsigned(text))

\* int(request.args.get(key, default)): [ok |-> FALSE] stands for ValueError
IntArg(args, key, default) ==
    IF key \notin DOMAIN args THEN [ok |-> TRUE, value |-> default]
    ELSE IF IsInt(args[key]) THEN [ok |-> TRUE, value |-> ParseInt(args[key])]
    ELSE [ok |-> FALSE]

(***************************************************************************)
(* get_weather_data, app.py:123-171, and get_weather, app.py:880-896       *)
(***************************************************************************)
\* get_weather_data with one retry after a timeout.
GetWeatherDataRetrying(cfg, city, r) ==
    IF ~Truthy(cfg.weather_key)
    THEN [result |-> Failure("Weather API key not configured"), calls |-> <<>>]
    ELSE IF r.kind = "timeout"
    THEN [calls |-> <<[to |-> "openweathermap/weather", reply |-> r],
                      [to |-> "openweathermap/weather", reply |-> r]>>,
          result |-> Failure("Weather service timeout")]
    ELSE [calls |-> <<[to |-> "openweathermap/weather", reply |-> r]>>,
          result |->
            IF r.kind = "connection_error"
            THEN Failure("Unable to connect to weather service")
            ELSE IF r.status = 200 /\ r.body_ok
                 THEN [success |-> TRUE, data |-> "weather_info"]
            ELSE Failure("Unable to fetch weather data")]

\* The result and the outbound calls of get_weather_data(city), r being what
\* the vendor would answer.
GetWeatherData(cfg, city, r) ==
    IF ~Truthy(cfg.weather_key)
    THEN [result |-> Failure("Weather API key not configured"), calls |-> <<>>]
    ELSE [calls |-> <<[to |-> "openweathermap/weather", reply |-> r]>>,
          result |->
            IF r.kind = "timeout" THEN Failure("Weather service timeout")
            ELSE IF r.kind = "connection_error"
                 THEN Failure("Unable to connect to weather service")
            ELSE IF r.status = 200
                 THEN IF r.body_ok THEN [success |-> TRUE, data |-> "weather_info"]
                      ELSE Failure("Weather API error")
            ELSE IF r.status = 404 THEN Failure("City not found")
            ELSE IF r.status = 401 THEN Failure("Invalid API key")
            ELSE Failure("Unable to fetch weather data")]

\* Lookup routes that answer a failed lookup with 422.
LookupAnswerUnprocessable(out) ==
    [calls |-> out.calls,
     response |-> IF out.result.success
                  THEN [status |-> 200, data |-> out.result.data]
                  ELSE ErrorResponse(422, out.result.error)]

\* Lookup routes that answer a vendor timeout with 504.
LookupAnswerByCause(out) ==
    [calls |-> out.calls,
     response |-> IF out.result.success
                  THEN [status |-> 200, data |-> out.result.data]
                  ELSE IF out.calls # <<>> /\ out.calls[Len(out.calls)].reply.kind = "timeout"
                       THEN ErrorResponse(504, out.result.error)
                  ELSE ErrorResponse(404, out.result.error)]

\* A failed lookup is answered 404: app.py:893, 916, 941, 965, 987.
LookupAnswer(out) ==
    [calls |-> out.calls,
     response |-> IF out.result.success
                  THEN [status |-> 200, data |-> out.result.data]
                  ELSE ErrorResponse(404, out.result.error)]

Plain(resp) == [calls |-> <<>>, response |-> resp]

GetWeatherOut(cfg, args, r) ==
    IF ~Truthy(Get(args, "city", None))
    THEN Plain(ErrorResponse(400, "City parameter is required"))
    ELSE LookupAnswer(GetWeatherData(cfg, args.city, r))

(***************************************************************************)
(* get_weather_forecast, app.py:174-211, and get_forecast, app.py:899-921  *)
(***************************************************************************)
GetWeatherForecast(cfg, city, days, r) ==
    IF ~Truthy(cfg.weather_key)
    THEN [result |-> Failure("Weather API key not configured"), calls |-> <<>>]
    ELSE [calls |-> <<[to |-> "openweathermap/forecast", reply |-> r,
                       cnt |-> Min(days * 8, 40)]>>,
          result |->
            IF Raises(r) THEN Failure("Forecast API error")
            ELSE IF r.status = 200 THEN [success |-> TRUE, data |-> "forecast_list"]
            ELSE Failure("Forecast not available")]

GetForecastOut(cfg, args, r) ==
    LET days == IntArg(args, "days", 5)
    IN IF ~days.ok THEN Plain(ErrorResponse(400, "Days parameter must be a number"))
       ELSE IF ~Truthy(Get(args, "city", None))
            THEN Plain(ErrorResponse(400, "City parameter is required"))
       ELSE IF days.value < 1 \/ days.value > 5
            THEN Plain(ErrorResponse(400, "Days must be between 1 and 5"))
       ELSE LookupAnswer(GetWeatherForecast(cfg, args.city, days.value, r))

(***************************************************************************)
(* search_wikipedia, app.py:245-318, and get_wikipedia, app.py:924-946     *)
(***************************************************************************)
\* r1 is the answer to the search, r2 to the fetch of the page found; found
\* tells whether the search has a hit, page whether the page exists.
SearchWikipedia(query, sentences, r1, found, r2, page) ==
    LET search == [to |-> "wikipedia/search", reply |-> r1]
        content == [to |-> "wikipedia/extract", reply |-> r2, exsentences |-> sentences]
        Fail(r) == IF r.kind = "timeout" THEN Failure("Wikipedia request timeout")
                   ELSE IF r.kind = "connection_error"
                        THEN Failure("Unable to connect to Wikipedia")
                   ELSE Failure("Wikipedia API error")
    IN IF Raises(r1) THEN [calls |-> <<search>>, result |-> Fail(r1)]
       ELSE IF r1.status # 200
            THEN [calls |-> <<search>>, result |-> Failure("Wikipedia search failed")]
       ELSE IF ~found
            THEN [calls |-> <<search>>, result |-> Failure("No Wikipedia article found")]
       ELSE IF Raises(r2) THEN [calls |-> <<search, content>>, result |-> Fail(r2)]
       ELSE IF r2.status # 200
            THEN [calls |-> <<search, content>>,
                  result |-> Failure("Failed to fetch Wikipedia content")]
       ELSE IF ~page
            THEN [calls |-> <<search, content>>,
                  result |-> Failure("Wikipedia page not found")]
       ELSE [calls |-> <<search, content>>,
             result |-> [success |-> TRUE, data |-> "wiki_data"]]

GetWikipediaOut(args, r1, found, r2, page) ==
    LET sentences == IntArg(args, "sentences", 3)
    IN IF ~sentences.ok
       THEN Plain(ErrorResponse(400, "Sentences parameter must be a number"))
       ELSE IF ~Truthy(Get(args, "query", None))
            THEN Plain(ErrorResponse(400, "Query parameter is required"))
       ELSE IF sentences.value < 1 \/ sentences.value > 10
            THEN Plain(ErrorResponse(400, "Sentences must be between 1 and 10"))
       ELSE LookupAnswer(SearchWikipedia(args.query, sentences.value, r1, found, r2, page))

(***************************************************************************)
(* get_general_news, app.py:346-412, get_financial_news, app.py:415-480,   *)
(* get_news, app.py:949-970, get_financial_news_endpoint, app.py:973-992   *)
(***************************************************************************)
\* The news helpers passing page_size on as it came.
NewsPageSizeUncapped(page_size) == page_size

\* app.py:356, 364, 433  min(page_size, NEWS_CONFIG['page_size'])
NewsPageSize(page_size) == Min(page_size, NEWS_PAGE_SIZE)

\* articles tells whether the vendor's answer lists any article.
NewsResult(r, articles, what) ==
    IF r.kind = "timeout" THEN Failure(what \o " API timeout")
    ELSE IF r.kind = "connection_error"
         THEN Failure(IF what = "News" THEN "Unable to connect to News API"
                      ELSE what \o " API error")
    ELSE IF ~r.body_ok THEN Failure(what \o " API error")
    ELSE IF r.status # 200 THEN Failure(what \o " API request failed")
    ELSE IF ~articles THEN Failure("No articles found")
    ELSE [success |-> TRUE, data |-> "articles"]

GetGeneralNews(cfg, query, page_size, r, articles) ==
    IF ~Truthy(cfg.news_key)
    THEN [result |-> Failure("News API key not configured"), calls |-> <<>>]
    ELSE [calls |-> <<[to |-> IF Truthy(query) THEN "newsapi/everything"
                              ELSE "newsapi/top-headlines",
                       reply |-> r, pageSize |-> NewsPageSize(page_size)]>>,
          result |-> NewsResult(r, articles, "News")]

GetFinancialNews(cfg, query, page_size, r, articles) ==
    IF ~Truthy(cfg.news_key)
    THEN [result |-> Failure("News API key not configured"), calls |-> <<>>]
    ELSE [calls |-> <<[to |-> "newsapi/everything",
                       reply |-> r, pageSize |-> NewsPageSize(page_size)]>>,
          result |-> NewsResult(r, articles, "Financial news")]

GetNewsOut(cfg, args, r, articles) ==
    LET page_size == IntArg(args, "page_size", 10)
    IN IF ~page_size.ok THEN Plain(ErrorResponse(400, "Page size must be a number"))
       ELSE IF page_size.value < 1 \/ page_size.value > 100
            THEN Plain(ErrorResponse(400, "Page size must be between 1 and 100"))
       ELSE LookupAnswer(GetGeneralNews(cfg, Get(args, "query", None),
                                        page_size.value, r, articles))

GetFinancialNewsOut(cfg, args, r, articles) ==
    LET page_size == IntArg(args, "page_size", 10)
    IN IF ~page_size.ok THEN Plain(ErrorResponse(400, "Page size must be a number"))
       ELSE IF page_size.value < 1 \/ page_size.value > 100
            THEN Plain(ErrorResponse(400, "Page size must be between 1 and 100"))
       ELSE LookupAnswer(GetFinancialNews(cfg, Get(args, "query", None),
                                          page_size.value, r, articles))

(***************************************************************************)
(* get_voices, app.py:607-651                                              *)
(***************************************************************************)
\* app.py:86-101  the predefined catalog, by the names of its voices
ELEVENLABS_VOICES ==
    [female |-> <<"Rachel", "Bella", "Elli", "Matilda">>,
     male |-> <<"Josh", "Arnold", "Adam", "Sam">>,
     other |-> <<>>]

\* The voice lists the vendor answers with: each voice has a name and may
\* carry a gender label.
VendorVoices ==
    {<<>>,
     <<[name |-> "Ann", labels |-> [gender |-> "Female"]],
       [name |-> "Bob", labels |-> [gender |-> "male"]],
       [name |-> "Cat", labels |-> <<>>],
       [name |-> "Dee", labels |-> [gender |-> "neutral"]]>>}

\* str.lower() of the gender labels that occur
Lower(text) == IF text = "Female" THEN "female" ELSE text

\* app.py:634-642  the category a voice is filed under
VoiceCategory(voice) ==
    LET gender == Lower(Get(voice.labels, "gender", ""))
    IN IF gender = "female" THEN "female"
       ELSE IF gender = "male" THEN "male"
       ELSE "other"

\* app.py:620-642  the vendor's voices, by category, in the vendor's order
RECURSIVE NamesIn(_, _)
NamesIn(voices, category) ==
    IF voices = <<>> THEN <<>>
    ELSE (IF VoiceCategory(Head(voices)) = category
          THEN <<Head(voices).name>> ELSE <<>>) \o NamesIn(Tail(voices), category)

\* A listing that leaves out the voices that are neither female nor male.
OrganizedVoicesLabelled(voices) ==
    [c \in {"female", "male", "other"} |->
        IF c = "other" THEN <<>> ELSE NamesIn(voices, c)]

OrganizedVoices(voices) ==
    [c \in {"female", "male", "other"} |-> NamesIn(voices, c)]

\* voices is the list in the body of the vendor's 200 answer; any other
\* answer carries none.
GetVoicesOut(r, voices) ==
    [calls |-> <<[to |-> "elevenlabs/voices", reply |-> r,
                  voices |-> IF ~Raises(r) /\ r.status = 200 THEN voices ELSE <<>>]>>,
     response |->
        IF ~Raises(r) /\ r.status = 200
        THEN [status |-> 200, voices |-> OrganizedVoices(voices)]
        ELSE [status |-> 200, voices |-> ELEVENLABS_VOICES]]

(***************************************************************************)
(* text_to_speech, app.py:654-718                                          *)
(***************************************************************************)
\* The JSON bodies of the routes that read request.json.
JsonBodies(dicts) == {[json |-> "null"]} \cup {[json |-> "object", data |-> d] : d \in dicts}

\* text_to_speech answering every vendor error with 502.
TextToSpeechOutBadGateway(cfg, body, r) ==
    IF body.json # "object" THEN Plain(ErrorResponse(500, "TTS error"))
    ELSE IF ~Truthy(Get(body.data, "text", ""))
         THEN Plain(ErrorResponse(400, "Text is required"))
    ELSE IF ~Truthy(cfg.elevenlabs_key)
         THEN Plain(ErrorResponse(500, "ElevenLabs API key not configured"))
    ELSE [calls |-> <<[to |-> "elevenlabs/text-to-speech", reply |-> r]>>,
          response |->
            IF r.kind # "http" \/ r.status # 200
            THEN ErrorResponse(502, "ElevenLabs error")
            ELSE [status |-> 200, content_type |-> "audio/mpeg"]]

\* What requests.post to ElevenLabs can give: as VendorReplies, or an
\* exception that is neither Timeout nor ConnectionError.
TtsReplies == VendorReplies \cup {[kind |-> "request_exception"]}

TextToSpeechOut(cfg, body, r) ==
    IF body.json # "object" THEN Plain(ErrorResponse(500, "TTS error"))
    ELSE IF ~Truthy(Get(body.data, "text", ""))
         THEN Plain(ErrorResponse(400, "Text is required"))
    ELSE IF ~Truthy(cfg.elevenlabs_key)
         THEN Plain(ErrorResponse(500, "ElevenLabs API key not configured"))
    ELSE [calls |-> <<[to |-> "elevenlabs/text-to-speech", reply |-> r]>>,
          response |->
            IF r.kind = "timeout" THEN ErrorResponse(504, "ElevenLabs timeout")
            ELSE IF r.kind = "connection_error"
                 THEN ErrorResponse(503, "Unable to connect to ElevenLabs")
            ELSE IF r.kind # "http" THEN ErrorResponse(500, "TTS error")
            ELSE IF r.status # 200 THEN ErrorResponse(r.status, "ElevenLabs error")
            ELSE [status |-> 200, content_type |-> "audio/mpeg"]]

(***************************************************************************)
(* speech_to_text, app.py:721-784                                          *)
(***************************************************************************)
\* What becomes of an uploaded file before Azure is called: the upload is
\* saved or the save raises, ffmpeg converts it or fails (leaving a partial
\* .wav or none) or cannot be started.
SttLocalOutcomes ==
    {"save_failed", "ffmpeg_missing", "ffmpeg_failed", "ffmpeg_failed_partial", "converted"}

\* What Azure's 200 answer says.
Recognitions ==
    {[RecognitionStatus |-> "Success", DisplayText |-> "hello"],
     [RecognitionStatus |-> "Success", DisplayText |-> ""],
     [RecognitionStatus |-> "NoMatch"],
     <<>>}

\* The files on disk after the try block of speech_to_text, tmp being the
\* name NamedTemporaryFile gave: app.py:733-742.
SttFilesWritten(tmp, outcome) ==
    IF outcome \in {"converted", "ffmpeg_failed_partial"}
    THEN {tmp \o ".webm", tmp \o ".wav"}
    ELSE {tmp \o ".webm"}

\* A finally clause that knows of the upload only.
SttPathsUploadOnly(tmp, outcome) ==
    IF outcome = "save_failed" THEN {} ELSE {tmp \o ".webm"}

\* app.py:724-725, 735, 738  webm_path and wav_path when the finally clause runs
SttPaths(tmp, outcome) ==
    IF outcome = "save_failed" THEN {} ELSE {tmp \o ".webm", tmp \o ".wav"}

\* app.py:781-784  the files the finally clause leaves
SttCleanup(files, paths) == files \ paths

SpeechToTextOut(cfg, files, outcome, r, recognition) ==
    IF "audio" \notin files THEN Plain(ErrorResponse(400, "Audio file is required"))
    ELSE IF outcome \in {"ffmpeg_failed", "ffmpeg_failed_partial"}
         THEN Plain(ErrorResponse(500, "Audio conversion failed"))
    ELSE IF outcome # "converted" THEN Plain(ErrorResponse(500, "exception"))
    ELSE [calls |-> <<[to |-> "azure/stt", reply |-> r]>>,
          response |->
            IF r.kind # "http" THEN ErrorResponse(500, "exception")
            ELSE IF r.status # 200 THEN ErrorResponse(r.status, "Azure STT error")
            ELSE IF ~r.body_ok THEN ErrorResponse(500, "exception")
            ELSE IF Get(recognition, "RecognitionStatus", "") # "Success"
                    \/ ~Truthy(Get(recognition, "DisplayText", ""))
                 THEN ErrorResponse(422, "Recognition failed")
            ELSE [status |-> 200, success |-> TRUE, text |-> recognition.DisplayText]]

(***************************************************************************)
(* get_revinci_token, app.py:787-815                                       *)
(***************************************************************************)
\* app.py:791  the cached token is present and has more than 60 s left
TokenIsFresh(cache, now) ==
    Truthy(cache.token) /\ cache.expires_at - now > REFRESH_MARGIN

\* app.py:813  now + token_data.get('expires_in', 300)
NewExpiresAt(now, token_data) ==
    now + Get(token_data, "expires_in", DEFAULT_EXPIRES_IN)

\* app.py:807-811  whether the token request ends in an exception
\* (Timeout, ConnectionError, raise_for_status, resp.json(), KeyError)
TokenRequestRaises(r) ==
    \/ r.kind # "http"
    \/ r.status >= 400
    \/ ~r.json_ok
    \/ "access_token" \notin DOMAIN r.data

\* app.py:844-846 and 866-868: an exception inside call_revinci_api becomes
\* {'success': False}, which chat answers with 502.
ChatFailed == ErrorResponse(502, "Failed to get a response. Please try again.")

\* The locals of chat alone: the frames of call_revinci_api and
\* get_revinci_token are gone once call_revinci_api has returned.
ChatFrame(l) == [l EXCEPT !.now = 0, !.token_data = <<>>, !.token = ""]

\* get_revinci_token under a lock held from the check to the cache write.
TokenCheckLocked(p) ==
    /\ pc[p] = "token_check"
    /\ \A q \in Procs \ {p} : pc[q] \notin {"token_post", "token_store", "expiry_store"}
    /\ pc' = [pc EXCEPT ![p] =
                IF TokenIsFresh(revinci_token_cache, local[p].now)
                THEN "token_cached" ELSE "token_post"]
    /\ UNCHANGED <<shared, clock, request, local, response, calls, ids_at_start>>

\* app.py:789-793  if the cached token is fresh, go and return it
TokenCheck(p) ==
    /\ pc[p] = "token_check"
    /\ pc' = [pc EXCEPT ![p] =
                IF TokenIsFresh(revinci_token_cache, local[p].now)
                THEN "token_cached" ELSE "token_post"]
    /\ UNCHANGED <<shared, clock, request, local, response, calls, ids_at_start>>

\* app.py:792  return _revinci_token_cache['token']
TokenCached(p) ==
    /\ pc[p] = "token_cached"
    /\ local' = [local EXCEPT ![p].token = revinci_token_cache.token]
    /\ pc' = [pc EXCEPT ![p] = "api_post"]
    /\ UNCHANGED <<shared, clock, request, response, calls, ids_at_start>>

\* A token request that empties the cache when it fails.
TokenPostClearing(p, r) ==
    /\ pc[p] = "token_post"
    /\ LET call == [to |-> "keycloak", reply |-> r]
       IN IF TokenRequestRaises(r)
          THEN /\ Answer(p, ChatFailed, <<call>>)
               /\ local' = [local EXCEPT ![p] = ChatFrame(local[p])]
               /\ revinci_token_cache' = [token |-> "", expires_at |-> 0]
          ELSE /\ LET token_data ==
                        [r.data EXCEPT !.access_token = TokenName(local[p].now, r.data)]
                  IN local' = [local EXCEPT ![p].token_data = token_data]
               /\ calls' = [calls EXCEPT ![p] = Append(calls[p], call)]
               /\ pc' = [pc EXCEPT ![p] = "token_store"]
               /\ UNCHANGED <<response, revinci_token_cache>>
    /\ UNCHANGED <<revinci_conversation_ids, conversation_sessions, temp_files, config,
                   completed, clock, request, ids_at_start>>

\* app.py:807-811  the token request and the checks of its response
TokenPost(p, r) ==
    /\ pc[p] = "token_post"
    /\ LET call == [to |-> "keycloak", reply |-> r]
       IN IF TokenRequestRaises(r)
          THEN /\ Answer(p, ChatFailed, <<call>>)
               /\ local' = [local EXCEPT ![p] = ChatFrame(local[p])]
          ELSE /\ LET token_data ==
                        [r.data EXCEPT !.access_token = TokenName(local[p].now, r.data)]
                  IN local' = [local EXCEPT ![p].token_data = token_data]
               /\ calls' = [calls EXCEPT ![p] = Append(calls[p], call)]
               /\ pc' = [pc EXCEPT ![p] = "token_store"]
               /\ UNCHANGED response
    /\ UNCHANGED <<shared, clock, request, ids_at_start>>

\* app.py:812  _revinci_token_cache['token'] = token_data['access_token']
TokenStore(p) ==
    /\ pc[p] = "token_store"
    /\ revinci_token_cache' =
         [revinci_token_cache EXCEPT !.token = local[p].token_data.access_token]
    /\ pc' = [pc EXCEPT ![p] = "expiry_store"]
    /\ UNCHANGED <<revinci_conversation_ids, conversation_sessions,
                   temp_files, config, completed, clock, request, local, response,
                   calls, ids_at_start>>

\* app.py:813  _revinci_token_cache['expires_at'] = now + expires_in
ExpiryStore(p) ==
    /\ pc[p] = "expiry_store"
    /\ revinci_token_cache' =
         [revinci_token_cache EXCEPT
            !.expires_at = NewExpiresAt(local[p].now, local[p].token_data)]
    /\ pc' = [pc EXCEPT ![p] = "token_return"]
    /\ UNCHANGED <<revinci_conversation_ids, conversation_sessions,
                   temp_files, config, completed, clock, request, local, response,
                   calls, ids_at_start>>

\* app.py:815  return _revinci_token_cache['token']
TokenReturn(p) ==
    /\ pc[p] = "token_return"
    /\ local' = [local EXCEPT ![p].token = revinci_token_cache.token,
                              ![p].token_data = <<>>]
    /\ pc' = [pc EXCEPT ![p] = "api_post"]
    /\ UNCHANGED <<shared, clock, request, response, calls, ids_at_start>>

(***************************************************************************)
(* call_revinci_api, app.py:818-846                                        *)
(***************************************************************************)
\* A payload built by a chat that acts on detect_weather_query.
RevinciPayloadWithWeather(user_input, conversation_id) ==
    [user_input |-> IF user_input = "weather in Paris"
                    THEN "weather in Paris [Paris: 18 C, clear sky]"
                    ELSE user_input,
     conversation_id |-> conversation_id]

\* app.py:826-830  the JSON payload of the backend call
RevinciPayload(user_input, conversation_id) ==
    [user_input |-> user_input, conversation_id |-> conversation_id]

\* call_revinci_api without the status check of app.py:834.
RevinciResultAnyStatus(r) ==
    IF r.kind = "http" /\ r.json_ok
    THEN [success |-> TRUE,
          content |-> Get(r.data, "content", ""),
          conversation_id |-> Get(r.data, "conversation_id", "")]
    ELSE [success |-> FALSE]

\* app.py:832-846  what call_revinci_api returns for the reply r
RevinciResult(r) ==
    IF r.kind = "http" /\ r.status = 200 /\ r.json_ok
    THEN [success |-> TRUE,
          content |-> Get(r.data, "content", ""),
          conversation_id |-> Get(r.data, "conversation_id", "")]
    ELSE [success |-> FALSE]

\* app.py:821-846  the backend call; app.py:863-868 a failure is answered 502
ApiPost(p, r) ==
    /\ pc[p] = "api_post"
    /\ LET payload == RevinciPayload(local[p].message, local[p].revinci_conv_id)
           call == [to |-> "revinci", payload |-> payload, reply |-> r]
           result == RevinciResult(r)
       IN /\ local' = [local EXCEPT ![p] =
                         [ChatFrame(local[p]) EXCEPT !.revinci_result = result]]
          /\ IF result.success
             THEN /\ calls' = [calls EXCEPT ![p] = Append(calls[p], call)]
                  /\ pc' = [pc EXCEPT ![p] = "chat_store"]
                  /\ UNCHANGED response
             ELSE Answer(p, ChatFailed, <<call>>)
    /\ UNCHANGED <<shared, clock, request, ids_at_start>>

(***************************************************************************)
(* chat, app.py:849-877                                                    *)
(***************************************************************************)
\* app.py:854  data.get('message') or data.get('user_input', '')
ChatMessage(data) == Or(Get(data, "message", None), Get(data, "user_input", ""))

\* app.py:855  data.get('session_id') or data.get('conversation_id', 'default')
ChatSessionId(data) ==
    Or(Get(data, "session_id", None), Get(data, "conversation_id", "default"))

\* A chat that starts every exchange as a new conversation.
StoredConversationIdForgotten(session_id) == ""

\* A chat that writes the entry of a session once and keeps it.
StoreConversationIdOnce(session_id, revinci_result) ==
    revinci_conversation_ids @@ (session_id :> revinci_result.conversation_id)

\* A chat that writes the conversation id to every session it knows.
StoreConversationIdEverywhere(session_id, revinci_result) ==
    [t \in DOMAIN revinci_conversation_ids \cup {session_id}
        |-> revinci_result.conversation_id]

\* app.py:860  revinci_conversation_ids.get(session_id, '')
StoredConversationId(session_id) == Get(revinci_conversation_ids, session_id, "")

\* app.py:865  revinci_conversation_ids[session_id] = revinci_result['conversation_id']
StoreConversationId(session_id, revinci_result) ==
    (session_id :> revinci_result.conversation_id) @@ revinci_conversation_ids

\* app.py:853-861 and 789: the request is read and validated, the stored
\* conversation id is looked up and get_revinci_token reads the time.
\* A body that is no JSON object makes data.get raise: app.py:875-877.
ChatBegin(p, route, body) ==
    /\ Accept(p, [route |-> route, body |-> body])
    /\ IF body.json # "object"
       THEN /\ Answer(p, ErrorResponse(500, "exception"), <<>>)
            /\ UNCHANGED local
       ELSE LET message == ChatMessage(body.data)
                session_id == ChatSessionId(body.data)
                frame == [fn |-> "chat",
                          message |-> message,
                          session_id |-> session_id,
                          revinci_conv_id |-> "",
                          revinci_result |-> <<>>,
                          now |-> 0,
                          token_data |-> <<>>,
                          token |-> ""]
            IN IF ~Truthy(message)
               THEN /\ Answer(p, ErrorResponse(400, "Message is required"), <<>>)
                    /\ local' = [local EXCEPT ![p] = frame]
               ELSE /\ local' = [local EXCEPT ![p] =
                                   [frame EXCEPT
                                      !.revinci_conv_id = StoredConversationId(session_id),
                                      !.now = clock]]
                    /\ pc' = [pc EXCEPT ![p] = "token_check"]
                    /\ UNCHANGED <<response, calls>>
    /\ UNCHANGED <<shared, clock>>

\* The conversation_id in the body of the backend's reply to p's request
\* ('' when the reply has none).
BackendConversationId(p) ==
    LET data == calls[p][Len(calls[p])].reply.data
    IN IF "conversation_id" \in DOMAIN data THEN data.conversation_id ELSE ""

\* app.py:863-873  the conversation id is stored and the answer sent
ChatStore(p) ==
    /\ pc[p] = "chat_store"
    /\ revinci_conversation_ids' =
         StoreConversationId(local[p].session_id, local[p].revinci_result)
    /\ completed' = (local[p].session_id :> BackendConversationId(p)) @@ completed
    /\ Answer(p, [status |-> 200,
                  response |-> local[p].revinci_result.content,
                  session_id |-> local[p].session_id], <<>>)
    /\ UNCHANGED <<revinci_token_cache, conversation_sessions,
                   temp_files, config, clock, request, local, ids_at_start>>

\* The steps of a chat request after its first.
ChatStep(p) ==
    \/ TokenCheck(p)
    \/ TokenCached(p)
    \/ TokenStore(p)
    \/ ExpiryStore(p)
    \/ TokenReturn(p)
    \/ ChatStore(p)

InitWith(cfg) ==
    /\ config = cfg
    /\ revinci_token_cache = [token |-> "", expires_at |-> 0]
    /\ revinci_conversation_ids = <<>>
    /\ conversation_sessions = <<>>
    /\ clock = 0
    /\ temp_files = {}
    /\ pc = [p \in Procs |-> "idle"]
    /\ request = [p \in Procs |-> NoRequest]
    /\ local = [p \in Procs |-> NoLocal]
    /\ response = [p \in Procs |-> NoResponse]
    /\ calls = [p \in Procs |-> <<>>]
    /\ ids_at_start = [p \in Procs |-> <<>>]
    /\ completed = <<>>

(***************************************************************************)
(* The routes without shared mutable state, one action each.               *)
(***************************************************************************)
\* The thread p handles the request req in one step: out gives the response
\* and the outbound calls made for it.
Handle(p, req, out) ==
    /\ Accept(p, req)
    /\ Answer(p, out.response, out.calls)
    /\ UNCHANGED <<revinci_token_cache, revinci_conversation_ids, config,
                   completed, clock, local>>

CityArgs == {<<>>, [city |-> ""], [city |-> "Paris"]}

ForecastArgs ==
    CityArgs \cup {[days |-> <<"3">>]}
    \cup {[city |-> "Paris", days |-> d] :
            d \in {<<"0">>, <<"1">>, <<"5">>, <<"6">>, <<"-", "1">>, <<"a">>, <<>>}}
    \cup {[city |-> "", days |-> <<"a">>]}

WikipediaArgs ==
    {<<>>, [query |-> ""], [query |-> "Paris"], [sentences |-> <<"a">>]}
    \cup {[query |-> "Paris", sentences |-> n] :
            n \in {<<"0">>, <<"1">>, <<"1", "0">>, <<"1", "1">>, <<"a">>}}

NewsArgs ==
    {<<>>, [query |-> "markets"]}
    \cup {[page_size |-> n] :
            n \in {<<"0">>, <<"1">>, <<"1", "1">>, <<"1", "0", "0">>,
                   <<"1", "0", "1">>, <<"a">>}}

GetWeather(p, args, r) ==
    /\ Handle(p, [route |-> "/api/weather", args |-> args], GetWeatherOut(config, args, r))
    /\ UNCHANGED <<conversation_sessions, temp_files>>

GetForecast(p, args, r) ==
    /\ Handle(p, [route |-> "/api/forecast", args |-> args], GetForecastOut(config, args, r))
    /\ UNCHANGED <<conversation_sessions, temp_files>>

GetWikipedia(p, args, r1, found, r2, page) ==
    /\ Handle(p, [route |-> "/api/wikipedia", args |-> args],
              GetWikipediaOut(args, r1, found, r2, page))
    /\ UNCHANGED <<conversation_sessions, temp_files>>

GetNews(p, args, r, articles) ==
    /\ Handle(p, [route |-> "/api/news", args |-> args],
              GetNewsOut(config, args, r, articles))
    /\ UNCHANGED <<conversation_sessions, temp_files>>

GetFinancialNewsEndpoint(p, args, r, articles) ==
    /\ Handle(p, [route |-> "/api/financial-news", args |-> args],
              GetFinancialNewsOut(config, args, r, articles))
    /\ UNCHANGED <<conversation_sessions, temp_files>>

GetVoices(p, r, voices) ==
    /\ Handle(p, [route |-> "/api/voices"], GetVoicesOut(r, voices))
    /\ UNCHANGED <<conversation_sessions, temp_files>>

TextToSpeech(p, body, r) ==
    /\ Handle(p, [route |-> "/api/tts", body |-> body], TextToSpeechOut(config, body, r))
    /\ UNCHANGED <<conversation_sessions, temp_files>>

\* The name NamedTemporaryFile gives the upload of thread p, without suffix.
TempName(p) == "/tmp/tmp_" \o p

SpeechToText(p, files, outcome, r, recognition) ==
    /\ Handle(p, [route |-> "/api/stt", files |-> files, outcome |-> outcome],
              SpeechToTextOut(config, files, outcome, r, recognition))
    /\ temp_files' =
         IF "audio" \notin files THEN temp_files
         ELSE SttCleanup(temp_files \cup SttFilesWritten(TempName(p), outcome),
                         SttPaths(TempName(p), outcome))
    /\ UNCHANGED conversation_sessions

(***************************************************************************)
(* clear_conversation, app.py:995-1009, and health_check, app.py:1012-1027 *)
(***************************************************************************)
\* A clear that starts a history for a session that has none.
ClearedSessionsCreating(session_id) ==
    (session_id :> <<"SYSTEM_PROMPT">>) @@ conversation_sessions

\* app.py:1001-1004  the sessions after a clear of session_id
ClearedSessions(session_id) ==
    IF session_id \in DOMAIN conversation_sessions
    THEN [conversation_sessions EXCEPT ![session_id] = <<"SYSTEM_PROMPT">>]
    ELSE conversation_sessions

\* A clear that also drops the session's conversation id.
ClearConversationEvicting(p, body) ==
    /\ Accept(p, [route |-> "/api/clear", body |-> body])
    /\ Answer(p, IF body.json # "object" THEN ErrorResponse(500, "exception")
                 ELSE [status |-> 200, message |-> "Conversation cleared successfully"],
              <<>>)
    /\ revinci_conversation_ids' =
         IF body.json # "object" THEN revinci_conversation_ids
         ELSE [s \in DOMAIN revinci_conversation_ids
                      \ {Get(body.data, "session_id", "default")}
                 |-> revinci_conversation_ids[s]]
    /\ UNCHANGED <<revinci_token_cache, conversation_sessions, temp_files, config,
                   completed, clock, local>>

ClearConversation(p, body) ==
    /\ Handle(p, [route |-> "/api/clear", body |-> body],
              Plain(IF body.json # "object" THEN ErrorResponse(500, "exception")
                    ELSE [status |-> 200, message |-> "Conversation cleared successfully"]))
    /\ conversation_sessions' =
         IF body.json # "object" THEN conversation_sessions
         ELSE ClearedSessions(Get(body.data, "session_id", "default"))
    /\ UNCHANGED temp_files

HealthCheck(p) ==
    /\ Handle(p, [route |-> "/api/health"],
              Plain([status |-> 200,
                     weather_api |-> IF config.weather_key # "YOUR_OPENWEATHERMAP_API_KEY"
                                     THEN "configured" ELSE "not configured",
                     news_api |-> IF config.news_key # "YOUR_NEWSAPI_KEY"
                                  THEN "configured" ELSE "not configured",
                     azure_stt |-> IF Truthy(config.azure_key)
                                   THEN "configured" ELSE "not configured",
                     active_sessions |-> Cardinality(DOMAIN conversation_sessions)]))
    /\ UNCHANGED <<conversation_sessions, temp_files>>

ClearBodies == JsonBodies({<<>>, [session_id |-> "s1"], [session_id |-> "default"]})

TtsBodies == JsonBodies({<<>>, [text |-> ""], [text |-> "hello"]})

\* Every key configured.
Configured == [weather_key |-> "key", news_key |-> "key",
               elevenlabs_key |-> "key", azure_key |-> "key"]

Init == InitWith(Configured)

InitRoutes == \E cfg \in Configs : InitWith(cfg)

(***************************************************************************)
(* The server with overlapping chat requests.                              *)
(***************************************************************************)
NextConc ==
    \/ Tick
    \/ \E p \in Procs :
         \/ \E body \in ChatBodiesSmall : ChatBegin(p, "/api/chat", body)
         \/ ChatStep(p)
         \/ \E r \in KeycloakRepliesSmall : TokenPost(p, r)
         \/ \E r \in RevinciRepliesSmall : ApiPost(p, r)
         \/ Finish(p)

SpecConc == Init /\ [][NextConc]_vars

(***************************************************************************)
(* The server with overlapping chat requests of several sessions, at one   *)
(* moment in time.                                                         *)
(***************************************************************************)
\* Chat requests of session s1, and two that name no session.
SessionBodies ==
    {[json |-> "object", data |-> d] :
        d \in {[message |-> "hello"],
               [user_input |-> "hi"],
               [message |-> "hello", session_id |-> "s1"]}}

KeycloakRepliesOne ==
    {[kind |-> "http", status |-> 200, json_ok |-> TRUE,
      data |-> [access_token |-> "new", expires_in |-> 120]]}

RevinciRepliesTwo ==
    {[kind |-> "http", status |-> 200, json_ok |-> TRUE,
      data |-> [content |-> "answer", conversation_id |-> c]] : c \in {"c1", "c2"}}

NextSessions ==
    \E p \in Procs :
        \/ \E body \in SessionBodies : ChatBegin(p, "/api/chat", body)
        \/ ChatStep(p)
        \/ \E r \in KeycloakRepliesOne : TokenPost(p, r)
        \/ \E r \in RevinciRepliesTwo : ApiPost(p, r)
        \/ Finish(p)

SpecSessions == Init /\ [][NextSessions]_vars

(***************************************************************************)
(* The server handling one chat, clear or health request at a time.        *)
(***************************************************************************)
Next ==
    \/ Tick
    \/ \E route \in ChatRoutes, body \in ChatBodies : ChatBegin("p1", route, body)
    \/ ChatStep("p1")
    \/ \E r \in KeycloakReplies : TokenPost("p1", r)
    \/ \E r \in RevinciReplies : ApiPost("p1", r)
    \/ \E body \in ClearBodies : ClearConversation("p1", body)
    \/ HealthCheck("p1")
    \/ Finish("p1")

Spec == Init /\ [][Next]_vars

(***************************************************************************)
(* The server handling one request at a time, with every route.            *)
(***************************************************************************)
NextRoutes ==
    \/ Tick
    \/ \E body \in ChatBodiesSmall : ChatBegin("p1", "/api/chat", body)
    \/ ChatStep("p1")
    \/ \E r \in KeycloakRepliesSmall : TokenPost("p1", r)
    \/ \E r \in RevinciRepliesSmall : ApiPost("p1", r)
    \/ \E body \in ClearBodies : ClearConversation("p1", body)
    \/ HealthCheck("p1")
    \/ \E args \in CityArgs, r \in VendorReplies : GetWeather("p1", args, r)
    \/ \E args \in ForecastArgs, r \in VendorReplies : GetForecast("p1", args, r)
    \/ \E args \in WikipediaArgs, r1, r2 \in VendorReplies, found, page \in BOOLEAN :
          GetWikipedia("p1", args, r1, found, r2, page)
    \/ \E args \in NewsArgs, r \in VendorReplies, articles \in BOOLEAN :
          GetNews("p1", args, r, articles)
    \/ \E args \in NewsArgs, r \in VendorReplies, articles \in BOOLEAN :
          GetFinancialNewsEndpoint("p1", args, r, articles)
    \/ \E r \in VendorReplies, voices \in VendorVoices : GetVoices("p1", r, voices)
    \/ \E body \in TtsBodies, r \in TtsReplies : TextToSpeech("p1", body, r)
    \/ \E files \in {{}, {"audio"}}, outcome \in SttLocalOutcomes,
          r \in VendorReplies, recognition \in Recognitions :
          SpeechToText("p1", files, outcome, r, recognition)
    \/ Finish("p1")

SpecRoutes == InitRoutes /\ [][NextRoutes]_vars

(***************************************************************************)
(* Notions the properties below are stated with.                           *)
(***************************************************************************)
\* The times the clock can show.
Times == {k * TickSeconds : k \in 0..MaxTicks}

\* The expires_at of the token response the access token tok came in:
\* the time its request read, plus its expires_in (300 when it has none).
ResponseExpiry(tok) ==
    CHOOSE e \in 0..(MaxTicks * TickSeconds + DEFAULT_EXPIRES_IN) :
        \E now \in Times :
            \/ tok = TokenName(now, <<>>) /\ e = now + DEFAULT_EXPIRES_IN
            \/ \E x \in {30, 60, 120} :
                  tok = TokenName(now, [expires_in |-> x]) /\ e = now + x

\* The thread p has made a token request while handling its request.
MadeTokenRequest(p) == \E i \in 1..Len(calls[p]) : calls[p][i].to = "keycloak"

\* get_revinci_token has just handed p a token from the cache, without a
\* token request.
HandedCachedToken(p) == pc[p] = "api_post" /\ ~MadeTokenRequest(p)

(***************************************************************************)
(* C1: get_revinci_token never hands out a cached token that is expired or *)
(* within 60 seconds of expiry: a token handed out without a token request *)
(* is non-empty and the expiry of the response it came in is more than 60  *)
(* seconds after the time the call read.                                   *)
(***************************************************************************)
C1_CachedTokenIsFresh ==
    \A p \in Procs :
        HandedCachedToken(p) =>
            /\ local[p].token # ""
            /\ ResponseExpiry(local[p].token) - local[p].now > REFRESH_MARGIN

\* Reached also by one request at a time: a token is served from the cache.
C1_ServedFromCache == \E p \in Procs : HandedCachedToken(p)

\* The thread p is handling, or has answered, a chat request.
IsChat(p) == request[p].route \in ChatRoutes

\* The request of p is answered.
Done(p) == pc[p] = "done"

\* The body holds a non-empty 'message' or a non-empty 'user_input'.
HasMessage(body) ==
    /\ body.json = "object"
    /\ \/ Truthy(Get(body.data, "message", None))
       \/ Truthy(Get(body.data, "user_input", None))

\* The session of the chat request p handles.
SessionOf(p) == ChatSessionId(request[p].body.data)

\* The last outbound call p has made.
LastCall(p) == calls[p][Len(calls[p])]

\* The backend answered p's exchange with 200 and a JSON body.
ExchangeSucceeded(p) ==
    /\ calls[p] # <<>>
    /\ LastCall(p).to = "revinci"
    /\ LastCall(p).reply.kind = "http"
    /\ LastCall(p).reply.status = 200
    /\ LastCall(p).reply.json_ok

\* The exchange of p ended in a failed token request or a failed backend call.
ExchangeFailed(p) == calls[p] # <<>> /\ ~ExchangeSucceeded(p)

(***************************************************************************)
(* C2: the conversation id stored for a session reflects the most recent   *)
(* exchange: the mapping holds, for each session, the conversation_id the  *)
(* backend returned in the latest successfully completed chat of that      *)
(* session (and nothing for a session without one), and the                *)
(* conversation_id sent to the backend by a chat of session s is the value *)
(* stored for s when that chat started, '' when s had no entry.            *)
(***************************************************************************)
C2_ConversationIdIsLatest ==
    /\ revinci_conversation_ids = completed
    /\ \A p \in Procs : \A i \in 1..Len(calls[p]) :
          calls[p][i].to = "revinci" =>
              calls[p][i].payload.conversation_id = Get(ids_at_start[p], SessionOf(p), "")

\* A chat of a session whose stored id is c1 has sent c1 and been answered
\* with c2.
C2_SecondExchange ==
    \E p \in Procs :
        /\ pc[p] = "chat_store"
        /\ Get(ids_at_start[p], SessionOf(p), "") = "c1"
        /\ LastCall(p).payload.conversation_id = "c1"
        /\ BackendConversationId(p) = "c2"

(***************************************************************************)
(* C3 as stated: after every chat call with a non-empty message for        *)
(* session s the mapping holds an entry for s written by that call.        *)
(***************************************************************************)
C3_EveryChatWritesEntry ==
    \A p \in Procs :
        (Done(p) /\ IsChat(p) /\ HasMessage(request[p].body)) =>
            /\ ExchangeSucceeded(p)
            /\ SessionOf(p) \in DOMAIN revinci_conversation_ids
            /\ revinci_conversation_ids[SessionOf(p)] = BackendConversationId(p)

(***************************************************************************)
(* C3, amended: after every chat call with a non-empty message for session *)
(* s whose backend exchange succeeded, the call is answered 200 and the    *)
(* mapping holds an entry for s with the conversation_id that exchange     *)
(* returned, created if s had none and overwritten otherwise; a chat call  *)
(* whose exchange failed writes no entry.                                  *)
(***************************************************************************)
C3_SuccessfulChatWritesEntry ==
    \A p \in Procs :
        (Done(p) /\ IsChat(p) /\ HasMessage(request[p].body)) =>
            IF ExchangeSucceeded(p)
            THEN /\ response[p].status = 200
                 /\ SessionOf(p) \in DOMAIN revinci_conversation_ids
                 /\ revinci_conversation_ids[SessionOf(p)] = BackendConversationId(p)
            ELSE revinci_conversation_ids = ids_at_start[p]

\* A successful chat has overwritten the entry of its session with another id.
C3_EntryOverwritten ==
    \E p \in Procs :
        /\ Done(p) /\ IsChat(p) /\ ExchangeSucceeded(p)
        /\ SessionOf(p) \in DOMAIN ids_at_start[p]
        /\ ids_at_start[p][SessionOf(p)] = "c2"
        /\ revinci_conversation_ids[SessionOf(p)] = "c1"

(***************************************************************************)
(* C4: entries of the session-to-conversation-id mapping are never expired *)
(* or evicted: no step of any endpoint (chat success or failure, clear,    *)
(* health, lookups, speech) removes a key of revinci_conversation_ids.     *)
(***************************************************************************)
C4_NeverEvicted ==
    [][DOMAIN revinci_conversation_ids \subseteq DOMAIN revinci_conversation_ids']_vars

\* /api/clear has been answered for a session that has an entry.
C4_ClearedSessionKeepsEntry ==
    \E p \in Procs :
        /\ Done(p)
        /\ request[p].route = "/api/clear"
        /\ request[p].body.json = "object"
        /\ response[p].status = 200
        /\ Get(request[p].body.data, "session_id", "default")
              \in DOMAIN revinci_conversation_ids

(***************************************************************************)
(* C5: the check and the cache write of get_revinci_token are not mutually *)
(* exclusive: a request that finds the cached token missing or expiring    *)
(* goes on to its own token request whatever the other requests are doing, *)
(* also while another request is between its check and its cache write.    *)
(***************************************************************************)
C5_RefreshNotExclusive ==
    \A p \in Procs :
        (pc[p] = "token_check" /\ ~TokenIsFresh(revinci_token_cache, local[p].now))
            => ENABLED (TokenCheck(p) /\ pc'[p] = "token_post")

\* Two requests have both found the token missing or expiring and have both
\* made a token request; neither has written the cache yet.
C5_BothRefresh ==
    /\ \A p \in Procs : pc[p] = "token_store" /\ MadeTokenRequest(p)
    /\ revinci_token_cache.token = ""

(***************************************************************************)
(* C6 as stated: a chat request without a non-empty 'message' or           *)
(* 'user_input' is answered 400 'Message is required', makes no outbound   *)
(* call and leaves the session-to-conversation-id mapping unchanged.       *)
(***************************************************************************)
C6_NoMessageIs400 ==
    \A p \in Procs :
        (Done(p) /\ IsChat(p) /\ ~HasMessage(request[p].body)) =>
            /\ response[p] = ErrorResponse(400, "Message is required")
            /\ calls[p] = <<>>
            /\ revinci_conversation_ids = ids_at_start[p]

(***************************************************************************)
(* C7: when the backend exchange of a chat request fails (failed token     *)
(* request, timeout, connection error, non-200 backend status, unreadable  *)
(* body) the request is answered 502 with the fixed error text and the     *)
(* session-to-conversation-id mapping is as it was when the request        *)
(* started, for every session.                                             *)
(***************************************************************************)
C7_BackendFailureIs502 ==
    \A p \in Procs :
        (Done(p) /\ IsChat(p) /\ ExchangeFailed(p)) =>
            /\ response[p] = ChatFailed
            /\ revinci_conversation_ids = ids_at_start[p]

\* The backend answered 500 to a chat of a session that has an entry.
C7_FailedExchangeOfKnownSession ==
    \E p \in Procs :
        /\ Done(p) /\ IsChat(p)
        /\ calls[p] # <<>>
        /\ LastCall(p).to = "revinci"
        /\ LastCall(p).reply.kind = "http"
        /\ LastCall(p).reply.status = 500
        /\ SessionOf(p) \in DOMAIN revinci_conversation_ids

\* The statuses the specification documents for error responses.
DocumentedStatuses == {400, 404, 500, 502, 503, 504}

\* The response is a JSON error body.
IsError(r) == "error" \in DOMAIN r

(***************************************************************************)
(* C8 as stated: every error response of every endpoint carries a status   *)
(* from {400, 404, 500, 502, 503, 504}.                                    *)
(***************************************************************************)
C8_DocumentedStatusesOnly ==
    \A p \in Procs :
        (Done(p) /\ IsError(response[p])) => response[p].status \in DocumentedStatuses

(***************************************************************************)
(* C8, amended: every error response carries a status from                 *)
(* {400, 404, 500, 502, 503, 504}, except that /api/stt answers 422 when   *)
(* the vendor answered 200 without a recognised text, and that /api/tts    *)
(* and /api/stt answer a non-200 vendor status with that same status.      *)
(***************************************************************************)
C8_ErrorStatuses ==
    \A p \in Procs :
        (Done(p) /\ IsError(response[p])) =>
            \/ response[p].status \in DocumentedStatuses
            \/ /\ request[p].route = "/api/stt"
               /\ response[p].status = 422
               /\ calls[p] # <<>>
               /\ LastCall(p).reply.kind = "http"
               /\ LastCall(p).reply.status = 200
            \/ /\ request[p].route \in {"/api/tts", "/api/stt"}
               /\ calls[p] # <<>>
               /\ LastCall(p).reply.kind = "http"
               /\ LastCall(p).reply.status # 200
               /\ response[p].status = LastCall(p).reply.status

\* /api/stt has answered 422.
C8_RecognitionFailed ==
    \E p \in Procs :
        Done(p) /\ request[p].route = "/api/stt" /\ response[p].status = 422

(***************************************************************************)
(* C9: the chat endpoint forwards the user's text: the user_input sent to  *)
(* the backend is the message received, unchanged, and a chat request      *)
(* makes no outbound call other than the token request and the backend     *)
(* call (no weather, Wikipedia or news call).                              *)
(***************************************************************************)
C9_ChatForwardsText ==
    \A p \in Procs :
        IsChat(p) =>
            \A i \in 1..Len(calls[p]) :
                /\ calls[p][i].to \in {"keycloak", "revinci"}
                /\ calls[p][i].to = "revinci" =>
                      calls[p][i].payload.user_input =
                          Or(Get(request[p].body.data, "message", None),
                             Get(request[p].body.data, "user_input", ""))

\* A chat whose text asks for the weather has reached the backend.
C9_WeatherQuestionForwarded ==
    \E p \in Procs :
        /\ IsChat(p)
        /\ calls[p] # <<>>
        /\ LastCall(p).to = "revinci"
        /\ LastCall(p).payload.user_input = "weather in Paris"

\* The vendor endpoints p has called, in order.
Called(p) == [i \in 1..Len(calls[p]) |-> calls[p][i].to]

(***************************************************************************)
(* C10 as stated: for every request to every endpoint the number of        *)
(* outbound HTTP calls made while handling it is at most one.              *)
(***************************************************************************)
C10_AtMostOneCall == \A p \in Procs : Len(calls[p]) <= 1

(***************************************************************************)
(* C10, amended: a request makes at most one outbound call, except a chat  *)
(* request that refreshes the token (the token request, then the backend   *)
(* call) and a /api/wikipedia request (the search, then the extract of the *)
(* first hit); no handler calls the same vendor endpoint twice.            *)
(***************************************************************************)
C10_CallsPerRequest ==
    \A p \in Procs :
        \/ Len(calls[p]) <= 1
        \/ IsChat(p) /\ Called(p) = <<"keycloak", "revinci">>
        \/ /\ request[p].route = "/api/wikipedia"
           /\ Called(p) = <<"wikipedia/search", "wikipedia/extract">>

\* /api/wikipedia has been answered after two calls.
C10_WikipediaTwoCalls ==
    \E p \in Procs :
        Done(p) /\ request[p].route = "/api/wikipedia" /\ Len(calls[p]) = 2

\* The routes that look something up at a vendor.
LookupRoutes ==
    {"/api/weather", "/api/forecast", "/api/wikipedia", "/api/news", "/api/financial-news"}

\* The request lacks the parameter its route requires.
LacksRequired(req) ==
    CASE req.route \in {"/api/weather", "/api/forecast"} ->
             ~Truthy(Get(req.args, "city", None))
      [] req.route = "/api/wikipedia" -> ~Truthy(Get(req.args, "query", None))
      [] req.route = "/api/tts" ->
             req.body.json # "object" \/ ~Truthy(Get(req.body.data, "text", None))
      [] req.route = "/api/stt" -> "audio" \notin req.files
      [] OTHER -> FALSE

(***************************************************************************)
(* C11 as stated: on /api/weather, /api/forecast, /api/wikipedia, /api/tts *)
(* and /api/stt a request that lacks its required parameter (city, city,   *)
(* query, text, uploaded 'audio' file) is answered 400 and no vendor call  *)
(* is made for it.                                                         *)
(***************************************************************************)
C11_MissingParameterIs400 ==
    \A p \in Procs :
        (Done(p) /\ LacksRequired(request[p])) =>
            response[p].status = 400 /\ calls[p] = <<>>

\* The integers the numeric query parameters of the requests stand for.
Written ==
    (<<"0">> :> 0) @@ (<<"1">> :> 1) @@ (<<"3">> :> 3) @@ (<<"5">> :> 5)
    @@ (<<"6">> :> 6) @@ (<<"1", "0">> :> 10) @@ (<<"1", "1">> :> 11)
    @@ (<<"1", "0", "0">> :> 100) @@ (<<"1", "0", "1">> :> 101)
    @@ (<<"-", "1">> :> (0 - 1))

\* The numeric parameter of each route: its name, default and range.
NumericParameter ==
    ("/api/forecast" :> [name |-> "days", default |-> 5, range |-> 1..5])
    @@ ("/api/wikipedia" :> [name |-> "sentences", default |-> 3, range |-> 1..10])
    @@ ("/api/news" :> [name |-> "page_size", default |-> 10, range |-> 1..100])
    @@ ("/api/financial-news" :> [name |-> "page_size", default |-> 10, range |-> 1..100])

\* The numeric parameter of the request is absent, or an integer in range.
NumberAccepted(req) ==
    LET par == NumericParameter[req.route]
    IN \/ par.name \notin DOMAIN req.args
       \/ /\ req.args[par.name] \in DOMAIN Written
          /\ Written[req.args[par.name]] \in par.range

\* The number the request asks for.
NumberAsked(req) ==
    LET par == NumericParameter[req.route]
    IN IF par.name \in DOMAIN req.args THEN Written[req.args[par.name]] ELSE par.default

\* The parameters of a lookup request pass the validation of its route.
ParametersValid(req) ==
    /\ ~LacksRequired(req)
    /\ req.route \in DOMAIN NumericParameter => NumberAccepted(req)

\* No vendor answered p's lookup with a readable 200 response.
VendorFailed(p) ==
    \/ calls[p] = <<>>
    \/ Raises(LastCall(p).reply)
    \/ LastCall(p).reply.status # 200

(***************************************************************************)
(* C12: on the lookup endpoints every failed lookup whose parameters       *)
(* passed validation is answered 404 with a JSON error body, whatever the  *)
(* cause: missing API key, vendor timeout, connection error, vendor status *)
(* other than 200, unreadable vendor body, or nothing found.               *)
(***************************************************************************)
C12_FailedLookupIs404 ==
    \A p \in Procs :
        (Done(p) /\ request[p].route \in LookupRoutes /\ ParametersValid(request[p])) =>
            /\ response[p].status \in {200, 404}
            /\ response[p].status = 404 => IsError(response[p])
            /\ VendorFailed(p) => response[p].status = 404

\* A weather lookup has failed for want of a configured key.
C12_FailedForMissingKey ==
    \E p \in Procs :
        /\ Done(p)
        /\ request[p].route = "/api/weather"
        /\ ParametersValid(request[p])
        /\ config.weather_key = ""
        /\ calls[p] = <<>>
        /\ response[p].status = 404

(***************************************************************************)
(* C13: on /api/tts with non-empty text and a configured key the answer is *)
(* determined by the vendor outcome: timeout 504, connection error 503,    *)
(* any other exception 500, a vendor status other than 200 that same       *)
(* status, and a 200 vendor response an audio stream.                      *)
(***************************************************************************)
C13_TtsOutcomes ==
    \A p \in Procs :
        (/\ Done(p)
         /\ request[p].route = "/api/tts"
         /\ ~LacksRequired(request[p])
         /\ config.elevenlabs_key # "") =>
            /\ Len(calls[p]) = 1
            /\ LET r == LastCall(p).reply
               IN CASE r.kind = "timeout" ->
                         IsError(response[p]) /\ response[p].status = 504
                    [] r.kind = "connection_error" ->
                         IsError(response[p]) /\ response[p].status = 503
                    [] r.kind = "request_exception" ->
                         IsError(response[p]) /\ response[p].status = 500
                    [] r.kind = "http" /\ r.status # 200 ->
                         IsError(response[p]) /\ response[p].status = r.status
                    [] r.kind = "http" /\ r.status = 200 ->
                         response[p] = [status |-> 200, content_type |-> "audio/mpeg"]

\* The vendor timed out on a text-to-speech request.
C13_TtsTimeout ==
    \E p \in Procs :
        /\ Done(p)
        /\ request[p].route = "/api/tts"
        /\ calls[p] # <<>>
        /\ LastCall(p).reply.kind = "timeout"
        /\ response[p].status = 504

(***************************************************************************)
(* C16: numeric query parameters are validated before any vendor call:     *)
(* /api/forecast answers 400 when days is not an integer or outside 1..5,  *)
(* /api/wikipedia when sentences is not an integer or outside 1..10,       *)
(* /api/news and /api/financial-news when page_size is not an integer or   *)
(* outside 1..100, in each case without a vendor call; and the pageSize    *)
(* sent to the news vendor is min(page_size, 10).                          *)
(***************************************************************************)
C16_NumbersValidated ==
    \A p \in Procs :
        (Done(p) /\ request[p].route \in DOMAIN NumericParameter) =>
            /\ ~NumberAccepted(request[p]) =>
                  response[p].status = 400 /\ calls[p] = <<>>
            /\ \A i \in 1..Len(calls[p]) :
                  "pageSize" \in DOMAIN calls[p][i] =>
                      /\ calls[p][i].pageSize = Min(NumberAsked(request[p]), 10)
                      /\ calls[p][i].pageSize <= 10

\* A news request asking for 100 articles has asked the vendor for 10.
C16_PageSizeCapped ==
    \E p \in Procs :
        /\ Done(p)
        /\ request[p].route = "/api/news"
        /\ Get(request[p].args, "page_size", <<>>) = <<"1", "0", "0">>
        /\ calls[p] # <<>>
        /\ LastCall(p).pageSize = 10

\* The token request whose reply is r has failed: an exception of
\* requests.post, a status that raise_for_status rejects, a body that is no
\* JSON, or a body without access_token.
TokenReplyFailed(r) ==
    \/ r.kind # "http"
    \/ r.status \notin 200..299
    \/ ~r.json_ok
    \/ "access_token" \notin DOMAIN r.data

(***************************************************************************)
(* C14: when the token request of get_revinci_token fails (non-2xx status, *)
(* timeout, connection error, a response without access_token) the step    *)
(* that receives the failure leaves the token cache as it was, no backend  *)
(* call has been or will be made for the request, and the chat request is  *)
(* answered 502.                                                           *)
(***************************************************************************)
C14_FailedTokenRequest ==
    [][\A p \in Procs :
          (/\ pc[p] = "token_post"
           /\ pc'[p] # "token_post"
           /\ TokenReplyFailed(calls'[p][Len(calls'[p])].reply)) =>
              /\ revinci_token_cache' = revinci_token_cache
              /\ pc'[p] = "done"
              /\ response'[p] = ChatFailed
              /\ \A i \in 1..Len(calls'[p]) : calls'[p][i].to # "revinci"]_vars

\* A token request has failed while the cache held an earlier token.
C14_FailedWithTokenCached ==
    \E p \in Procs :
        /\ Done(p) /\ IsChat(p)
        /\ calls[p] # <<>>
        /\ LastCall(p).to = "keycloak"
        /\ TokenReplyFailed(LastCall(p).reply)
        /\ revinci_token_cache.token # ""

\* The expires_in of the token response the access token tok came in
\* (300 when it had none).
IssuedExpiresIn(tok) ==
    CHOOSE x \in {30, 60, 120, DEFAULT_EXPIRES_IN} :
        \E now \in Times :
            \/ tok = TokenName(now, [expires_in |-> x])
            \/ x = DEFAULT_EXPIRES_IN /\ tok = TokenName(now, <<>>)

(***************************************************************************)
(* C15 as stated: after a successful refresh the cache holds expires_at =  *)
(* (time read at the start of get_revinci_token) + expires_in, 300 when    *)
(* absent, as long as it holds the token of that refresh; and a token      *)
(* issued with expires_in <= 60 is never served from the cache to a        *)
(* request that has just read the time.                                    *)
(***************************************************************************)
C15_ExpiryOfRefresh ==
    \A p \in Procs :
        /\ (/\ pc[p] = "token_return"
            /\ revinci_token_cache.token = local[p].token_data.access_token) =>
              revinci_token_cache.expires_at =
                  local[p].now + Get(local[p].token_data, "expires_in", 300)
        /\ (HandedCachedToken(p) /\ local[p].now = clock) =>
              IssuedExpiresIn(local[p].token) > 60

(***************************************************************************)
(* C17 as stated: the token and the expires_at held in the token cache     *)
(* come from the same token response whenever a request passes the check   *)
(* of the cache and is about to be served the cached token.                *)
(***************************************************************************)
C17_CacheFromOneResponse ==
    \A p \in Procs :
        pc[p] = "token_cached" =>
            revinci_token_cache.expires_at = ResponseExpiry(revinci_token_cache.token)

(***************************************************************************)
(* C18: /api/clear changes no server state: conversation_sessions is empty *)
(* in every reachable state, /api/health always reports                    *)
(* active_sessions = 0, and the step that handles a clear request leaves   *)
(* revinci_conversation_ids, the token cache and conversation_sessions as  *)
(* they were, so that a later chat of the cleared session finds the        *)
(* conversation id stored before the clear.                                *)
(***************************************************************************)
C18_ClearChangesNothing ==
    /\ [](/\ conversation_sessions = <<>>
          /\ \A p \in Procs :
                (Done(p) /\ request[p].route = "/api/health") =>
                    response[p].active_sessions = 0)
    /\ [][\A p \in Procs :
             (pc[p] = "idle" /\ request'[p].route = "/api/clear") =>
                 /\ revinci_conversation_ids' = revinci_conversation_ids
                 /\ revinci_token_cache' = revinci_token_cache
                 /\ conversation_sessions' = conversation_sessions]_vars

\* /api/clear has been answered for session s1 while s1 has a conversation
\* id and the cache holds a token.
C18_ClearedWithStateKept ==
    \E p \in Procs :
        /\ Done(p)
        /\ request[p].route = "/api/clear"
        /\ request[p].body.json = "object"
        /\ Get(request[p].body.data, "session_id", "default") = "s1"
        /\ Get(revinci_conversation_ids, "s1", "") = "c2"
        /\ revinci_token_cache.token # ""

\* The session identifiers of the requests.
Sessions == {"default", "s1", "s2"}

(***************************************************************************)
(* C19: sessions are isolated in the conversation-id mapping: whenever the *)
(* entry of a session t changes, the step is the store of a chat request   *)
(* of session t, also when chat requests of different sessions overlap;    *)
(* and a chat request that supplies neither session_id nor conversation_id *)
(* is a request of session 'default'.                                      *)
(***************************************************************************)
C19_SessionsIsolated ==
    /\ [][\A t \in Sessions :
             Get(revinci_conversation_ids', t, None) # Get(revinci_conversation_ids, t, None)
                 => \E p \in Procs :
                       /\ pc[p] = "chat_store"
                       /\ pc'[p] = "done"
                       /\ SessionOf(p) = t]_vars
    /\ [](\A p \in Procs :
             (/\ Done(p) /\ IsChat(p)
              /\ response[p].status = 200
              /\ DOMAIN request[p].body.data \cap {"session_id", "conversation_id"} = {}) =>
                 /\ response[p].session_id = "default"
                 /\ "default" \in DOMAIN revinci_conversation_ids)

\* A chat of session 'default' is about to store its id while a chat of
\* session s1 is under way and both sessions have an entry.
C19_OverlappingSessions ==
    /\ pc["p1"] = "chat_store"
    /\ SessionOf("p1") = "default"
    /\ pc["p2"] \in {"token_check", "api_post", "chat_store"}
    /\ SessionOf("p2") = "s1"
    /\ Get(revinci_conversation_ids, "s1", "") = "c1"
    /\ Get(revinci_conversation_ids, "default", "") = "c2"

(***************************************************************************)
(* C20: every /api/stt request that saved an uploaded file leaves no       *)
(* temporary file behind: when it is answered, by success, vendor error    *)
(* status, failed recognition, ffmpeg failure or any other exception,      *)
(* neither its .webm file nor the derived .wav file exists.                *)
(***************************************************************************)
C20_NoTemporaryFileLeft ==
    \A p \in Procs :
        (/\ Done(p)
         /\ request[p].route = "/api/stt"
         /\ "audio" \in request[p].files
         /\ request[p].outcome # "save_failed") =>
            temp_files \cap {TempName(p) \o ".webm", TempName(p) \o ".wav"} = {}

\* ffmpeg has failed after writing part of the .wav file.
C20_FfmpegFailedPartial ==
    \E p \in Procs :
        /\ Done(p)
        /\ request[p].route = "/api/stt"
        /\ "audio" \in request[p].files
        /\ request[p].outcome = "ffmpeg_failed_partial"
        /\ response[p].status = 500

\* The places of the listing org: a category and a position in its list.
Places(org) == UNION {{<<c, j>> : j \in 1..Len(org[c])} : c \in DOMAIN org}

\* The listing org holds each of the voices exactly once, and nothing else.
Partitioned(voices, org) ==
    /\ DOMAIN org = {"female", "male", "other"}
    /\ Cardinality(Places(org)) = Len(voices)
    /\ \A i \in 1..Len(voices) :
          Cardinality({x \in Places(org) : org[x[1]][x[2]] = voices[i].name}) = 1

(***************************************************************************)
(* C21: /api/voices never answers with an error: when the vendor answers   *)
(* 200 with a readable body the response lists each vendor voice in        *)
(* exactly one of 'female', 'male', 'other', and on any other vendor       *)
(* status or any exception it is the predefined ELEVENLABS_VOICES catalog, *)
(* with HTTP 200 in every case.                                            *)
(***************************************************************************)
C21_VoicesNeverFail ==
    \A p \in Procs :
        (Done(p) /\ request[p].route = "/api/voices") =>
            /\ response[p].status = 200
            /\ ~IsError(response[p])
            /\ Len(calls[p]) = 1
            /\ LET call == LastCall(p)
               IN IF /\ call.reply.kind = "http"
                     /\ call.reply.status = 200
                     /\ call.reply.body_ok
                  THEN Partitioned(call.voices, response[p].voices)
                  ELSE response[p].voices =
                         [female |-> <<"Rachel", "Bella", "Elli", "Matilda">>,
                          male |-> <<"Josh", "Arnold", "Adam", "Sam">>,
                          other |-> <<>>]

\* The vendor has answered with four voices, two of them neither female nor
\* male, and they are listed.
C21_VendorVoicesListed ==
    \E p \in Procs :
        /\ Done(p)
        /\ request[p].route = "/api/voices"
        /\ LastCall(p).reply.kind = "http"
        /\ LastCall(p).reply.status = 200
        /\ Len(LastCall(p).voices) = 4
        /\ Len(response[p].voices.other) = 2
        /\ response[p].voices.female = <<"Ann">>

====
